---- MODULE Spec2Model ----
(***************************************************************************)
(* RepoLens (src/app.py): the /analyze pipeline, the heuristic detectors   *)
(* and the deterministic feedback generator.                               *)
(*                                                                         *)
(* Strings the code inspects character by character (file names, path     *)
(* components) are sequences of one-character strings.  A path is the      *)
(* sequence of its components (the string split on os.sep).  A URL is the  *)
(* sequence of its segments (the string split on "/").                     *)
(***************************************************************************)
EXTENDS Integers, Sequences, FiniteSets, TLC

VARIABLES req,      \* per request: the locals of analyze / build_analysis
          tempDir,  \* the directory TEMP_DIR on disk, shared by the process
          a,        \* argument of fallback_feedback (pure-function runs)
          fb,       \* value returned by fallback_feedback (pure-function runs)
          files,    \* argument of detect_readme (pure-function runs)
          disk,     \* what open(f) gives for each file (pure-function runs)
          rd        \* value returned by detect_readme (pure-function runs)

vars == <<req, tempDir, a, fb, files, disk, rd>>

---------------------------------------------------------------------------
(* Bounds *)

MaxCommits == 60   \* largest commit count given to fallback_feedback
MaxStars   == 25   \* largest star count given to fallback_feedback
MaxFiles   == 3    \* longest file listing given to detect_readme

---------------------------------------------------------------------------
(* Character strings *)

UpperCase == <<"A","B","C","D","E","F","G","H","I","J","K","L","M",
               "N","O","P","Q","R","S","T","U","V","W","X","Y","Z">>
LowerCase == <<"a","b","c","d","e","f","g","h","i","j","k","l","m",
               "n","o","p","q","r","s","t","u","v","w","x","y","z">>

\* str.lower() on one character
LowerChar(c) ==
    IF \E i \in 1..26 : UpperCase[i] = c
    THEN LowerCase[CHOOSE i \in 1..26 : UpperCase[i] = c]
    ELSE c

\* str.lower()
Lower(s) == [i \in 1..Len(s) |-> LowerChar(s[i])]

\* str.startswith(p)
StartsWith(s, p) == Len(s) >= Len(p) /\ SubSeq(s, 1, Len(p)) = p

\* str.endswith(p)
EndsWith(s, p) == Len(s) >= Len(p) /\ SubSeq(s, Len(s) - Len(p) + 1, Len(s)) = p

EmptyStr == << >>

S_readme     == <<"r","e","a","d","m","e">>
S_readme_dot == <<"r","e","a","d","m","e",".">>
S_src        == <<"s","r","c">>
S_tests      == <<"t","e","s","t","s">>
S_docs       == <<"d","o","c","s">>
S_git        == <<".","g","i","t">>

\* file and directory names of the modelled repositories
N_README_md  == <<"R","E","A","D","M","E",".","m","d">>
N_Readme     == <<"R","e","a","d","m","e">>
N_readmes_md == <<"r","e","a","d","m","e","s",".","m","d">>
N_main_py    == <<"m","a","i","n",".","p","y">>
N_util_py    == <<"u","t","i","l",".","p","y">>
N_app_test   == <<"a","p","p","_","t","e","s","t",".","g","o">>
N_guide_md   == <<"g","u","i","d","e",".","m","d">>
N_HEAD       == <<"H","E","A","D">>
N_Tests      == <<"T","e","s","t","s">>

\* TEMP_DIR = os.path.join(os.path.expanduser("~"), "repo_lens_temp")
TEMP_DIR == << <<"h","o","m","e">>,
               <<"r","e","p","o","_","l","e","n","s","_","t","e","m","p">> >>

\* os.path.join(TEMP_DIR, ...)
InTemp(rel) == TEMP_DIR \o rel

\* os.path.relpath(f, TEMP_DIR), split on os.sep, for f below TEMP_DIR
relpath(f) == SubSeq(f, Len(TEMP_DIR) + 1, Len(f))

\* os.path.basename(f)
basename(f) == f[Len(f)]

---------------------------------------------------------------------------
(* File contents: bytes in runs <<class, count>>, class "txt" (printable), *)
(* "ws" (whitespace) or "bad" (bytes that do not decode).                  *)

RECURSIVE DropBad(_)
\* bytes.decode(errors="ignore")
DropBad(runs) ==
    IF runs = << >> THEN << >>
    ELSE IF Head(runs)[1] = "bad" THEN DropBad(Tail(runs))
         ELSE <<Head(runs)>> \o DropBad(Tail(runs))

RECURSIVE LStrip(_)
LStrip(runs) ==
    IF runs = << >> THEN << >>
    ELSE IF Head(runs)[1] = "ws" THEN LStrip(Tail(runs))
         ELSE runs

RECURSIVE RStrip(_)
RStrip(runs) ==
    IF runs = << >> THEN << >>
    ELSE IF runs[Len(runs)][1] = "ws" THEN RStrip(SubSeq(runs, 1, Len(runs) - 1))
         ELSE runs

\* str.strip()
Strip(runs) == RStrip(LStrip(runs))

RECURSIVE StrLen(_)
\* len(content)
StrLen(runs) == IF runs = << >> THEN 0 ELSE Head(runs)[2] + StrLen(Tail(runs))

\* what open(f, "rb") gives: the bytes, or an exception
Unreadable == [readable |-> FALSE, runs |-> << >>]
Bytes(runs) == [readable |-> TRUE, runs |-> runs]

---------------------------------------------------------------------------
(* Heuristic detectors *)

RECURSIVE detect_readme_from(_, _, _)
\* the loop of detect_readme from position i on; openf(f) is open(f).read()
detect_readme_from(fs, openf, i) ==
    IF i > Len(fs) THEN <<FALSE, FALSE>>
    ELSE LET f        == fs[i]
             rel_path == relpath(f)
             name     == Lower(basename(f))
         IN  IF Len(rel_path) > 1
             THEN detect_readme_from(fs, openf, i + 1)
             ELSE IF name = S_readme \/ StartsWith(name, S_readme_dot)
                  THEN IF ~openf[f].readable
                       THEN <<FALSE, FALSE>>
                       ELSE IF StrLen(Strip(DropBad(openf[f].runs))) < 50
                            THEN <<FALSE, FALSE>>
                            ELSE <<TRUE, TRUE>>
                  ELSE detect_readme_from(fs, openf, i + 1)

RECURSIVE detect_readme_skip_short(_, _, _)
\* variant: a short candidate is skipped (continue) instead of ending the scan
detect_readme_skip_short(fs, openf, i) ==
    IF i > Len(fs) THEN <<FALSE, FALSE>>
    ELSE LET f        == fs[i]
             rel_path == relpath(f)
             name     == Lower(basename(f))
         IN  IF Len(rel_path) > 1
             THEN detect_readme_skip_short(fs, openf, i + 1)
             ELSE IF name = S_readme \/ StartsWith(name, S_readme_dot)
                  THEN IF ~openf[f].readable
                       THEN <<FALSE, FALSE>>
                       ELSE IF StrLen(Strip(DropBad(openf[f].runs))) < 50
                            THEN detect_readme_skip_short(fs, openf, i + 1)
                            ELSE <<TRUE, TRUE>>
                  ELSE detect_readme_skip_short(fs, openf, i + 1)

detect_readme_lenient(fs, openf) == detect_readme_skip_short(fs, openf, 1)

detect_readme(fs, openf) == detect_readme_from(fs, openf, 1)

TEST_DIRS == { S_tests,
               <<"_","_","t","e","s","t","s","_","_">>,
               <<"t","e","s","t">>,
               <<"s","p","e","c">> }

TEST_FILE_SUFFIXES == { <<"_","t","e","s","t",".","p","y">>,
                        <<"t","e","s","t","_",".","p","y">>,
                        <<".","t","e","s","t",".","j","s">>,
                        <<".","s","p","e","c",".","j","s">>,
                        <<".","t","e","s","t",".","t","s">>,
                        <<".","s","p","e","c",".","t","s">>,
                        <<"_","t","e","s","t",".","g","o">>,
                        <<"_","t","e","s","t",".","r","s">> }

TEST_CONFIGS == { <<"p","y","t","e","s","t",".","i","n","i">>,
                  <<"t","o","x",".","i","n","i">>,
                  <<"j","e","s","t",".","c","o","n","f","i","g",".","j","s">>,
                  <<"j","e","s","t",".","c","o","n","f","i","g",".","t","s">>,
                  <<"v","i","t","e","s","t",".","c","o","n","f","i","g",".","t","s">>,
                  <<"m","o","c","h","a",".","o","p","t","s">>,
                  <<"p","h","p","u","n","i","t",".","x","m","l">> }

detect_tests(fs) ==
    \E i \in 1..Len(fs) :
        LET rel   == relpath(fs[i])
            name  == Lower(basename(fs[i]))
        IN  \/ \E k \in 1..(Len(rel) - 1) : Lower(rel[k]) \in TEST_DIRS
            \/ \E suf \in TEST_FILE_SUFFIXES : EndsWith(name, suf)
            \/ name \in TEST_CONFIGS

\* f.replace(TEMP_DIR, "").split(os.sep): an empty first part, then the
\* components below TEMP_DIR
StructureParts(f) == <<EmptyStr>> \o relpath(f)

detect_structure(fs) ==
    LET dirs  == { StructureParts(fs[i])[2] :
                     i \in { j \in 1..Len(fs) : Len(StructureParts(fs[j])) > 2 } }
        score == (IF S_src \in dirs THEN 1 ELSE 0)
               + (IF S_tests \in dirs THEN 1 ELSE 0)
               + (IF S_docs \in dirs THEN 1 ELSE 0)
               + (IF Len(fs) > 10 THEN 1 ELSE 0)
    IN  IF score >= 3 THEN "clean"
        ELSE IF score = 2 THEN "moderate"
        ELSE "basic"

---------------------------------------------------------------------------
(* Deterministic feedback: fallback_feedback(a).  st is the pair of locals *)
(* [score, roadmap] threaded through the rules in source order.            *)

R_structure    == "Improve project structure (src/, tests/, docs/)"
R_expand       == "Expand README with setup, usage, and examples"
R_add          == "Add a comprehensive README"
R_add_overview == "Add a README with project overview, setup instructions, and usage examples"
R_improve      == "Improve README with clearer documentation and examples"
R_tests        == "Add unit and integration tests"
R_commits      == "Commit more frequently with meaningful messages"
R_default      == "Prepare the project for open-source contributions"

Min(x, y) == IF x < y THEN x ELSE y
Max(x, y) == IF x > y THEN x ELSE y

\* variant: the basic branch forgets its recommendation
StructureRule_silent(in, st) ==
    IF in.structure = "clean"
    THEN [st EXCEPT !.score = @ + 15]
    ELSE IF in.structure = "moderate"
         THEN [st EXCEPT !.score = @ + 8]
         ELSE st

StructureRule(in, st) ==
    IF in.structure = "clean"
    THEN [st EXCEPT !.score = @ + 15]
    ELSE IF in.structure = "moderate"
         THEN [st EXCEPT !.score = @ + 8]
         ELSE [st EXCEPT !.roadmap = Append(@, R_structure)]

ReadmeRule(in, st) ==
    IF in.readme
    THEN IF ~in.readme_content
         THEN [score |-> st.score + 10, roadmap |-> Append(st.roadmap, R_expand)]
         ELSE [st EXCEPT !.score = @ + 10]
    ELSE [st EXCEPT !.roadmap = Append(@, R_add)]

ReadmeRuleAgain(in, st) ==
    IF ~in.readme
    THEN [st EXCEPT !.roadmap = Append(@, R_add_overview)]
    ELSE IF ~in.readme_content
         THEN [st EXCEPT !.roadmap = Append(@, R_improve)]
         ELSE st

TestsRule(in, st) ==
    IF in.tests
    THEN [st EXCEPT !.score = @ + 15]
    ELSE [st EXCEPT !.roadmap = Append(@, R_tests)]

\* variant: the bonus threshold is >= 50 instead of > 50
CommitsRule_ge(in, st) ==
    IF in.commits >= 50
    THEN [st EXCEPT !.score = @ + 10]
    ELSE IF in.commits < 10
         THEN [st EXCEPT !.roadmap = Append(@, R_commits)]
         ELSE st

CommitsRule(in, st) ==
    IF in.commits > 50
    THEN [st EXCEPT !.score = @ + 10]
    ELSE IF in.commits < 10
         THEN [st EXCEPT !.roadmap = Append(@, R_commits)]
         ELSE st

StarsRule(in, st) ==
    IF in.stars > 20 THEN [st EXCEPT !.score = @ + 5] ELSE st

\* str.capitalize() of the three structure classes
Capitalize(s) ==
    CASE s = "clean"    -> "Clean"
      [] s = "moderate" -> "Moderate"
      [] s = "basic"    -> "Basic"
      [] OTHER          -> s

\* the f-string, as its pieces
Summary(in) ==
    << Capitalize(in.structure), in.language, "project",
       IF in.readme THEN "with" ELSE "without", "documentation", "and",
       IF in.tests THEN "with" ELSE "without", "tests." >>

\* variant: the default entry is never added
DefaultRoadmap_never(roadmap) == roadmap

\* if not roadmap: roadmap.append(...)
DefaultRoadmap(roadmap) ==
    IF roadmap = << >> THEN Append(roadmap, R_default) ELSE roadmap

\* roadmap[:7]
FirstSeven(roadmap) == SubSeq(roadmap, 1, Min(7, Len(roadmap)))

fallback_feedback(in) ==
    LET st0 == [score |-> 40, roadmap |-> << >>]
        st1 == StructureRule(in, st0)
        st2 == ReadmeRule(in, st1)
        st3 == ReadmeRuleAgain(in, st2)
        st4 == TestsRule(in, st3)
        st5 == CommitsRule(in, st4)
        st6 == StarsRule(in, st5)
    IN  [summary |-> Summary(in),
         roadmap |-> FirstSeven(DefaultRoadmap(st6.roadmap)),
         score   |-> Min(st6.score, 100)]

---------------------------------------------------------------------------
(* fallback_feedback on its own: the argument is drawn from the values     *)
(* build_analysis can put in the dict, then the function is applied.       *)

NotRun == [done |-> FALSE]

Analyses ==
    [ structure      : {"clean", "moderate", "basic"},
      readme         : BOOLEAN,
      readme_content : BOOLEAN,
      tests          : BOOLEAN,
      commits        : 0..MaxCommits,
      stars          : 0..MaxStars,
      language       : {"Python", "Unknown"} ]

NoAnalysis == [structure |-> "basic", readme |-> FALSE, readme_content |-> FALSE,
               tests |-> FALSE, commits |-> 0, stars |-> 0, language |-> "Unknown"]

InitFeedback ==
    /\ a \in Analyses
    /\ fb = NotRun
    /\ req = << >>
    /\ tempDir = << >>
    /\ files = << >>
    /\ disk = << >>
    /\ rd = NotRun

RunFeedback ==
    /\ fb = NotRun
    /\ fb' = [done |-> TRUE, out |-> fallback_feedback(a)]
    /\ UNCHANGED <<req, tempDir, a, files, disk, rd>>

NextFeedback == RunFeedback

SpecFeedback == InitFeedback /\ [][NextFeedback]_vars

IsReadmeEntry(e) == e \in {R_add, R_add_overview, R_expand, R_improve}

\* C4: the score is 40 plus the fixed increments (structure 15/8/0, readme
\* 10, tests 15, commits > 50 gives 10, stars > 20 gives 5), clamped to
\* [0,100]; so it always lies within [0,100].
C4_ScoreFormula ==
    fb.done =>
        LET sum == 40
                 + (CASE a.structure = "clean"    -> 15
                      [] a.structure = "moderate" -> 8
                      [] a.structure = "basic"    -> 0)
                 + (IF a.readme THEN 10 ELSE 0)
                 + (IF a.tests THEN 15 ELSE 0)
                 + (IF a.commits > 50 THEN 10 ELSE 0)
                 + (IF a.stars > 20 THEN 5 ELSE 0)
        IN  /\ fb.out.score = Max(0, Min(100, sum))
            /\ fb.out.score \in 0..100

\* C4 witness: a run with every increment earned (clean, readme, tests,
\* more than 50 commits, more than 20 stars) has returned.
C4_Witness ==
    /\ fb.done
    /\ a.structure = "clean" /\ a.readme /\ a.tests
    /\ a.commits > 50 /\ a.stars > 20
    /\ fb.out.score = 95

\* C5: the roadmap holds the improve-structure recommendation exactly when
\* the structure class is not clean (moderate or basic).
C5_StructureEntryIffNotClean ==
    fb.done =>
        ((\E i \in 1..Len(fb.out.roadmap) : fb.out.roadmap[i] = R_structure)
            <=> a.structure # "clean")

\* C6: the README rule contributes at most one entry (one add-a-README entry
\* when readme is false, one expand-the-README entry when readme is true and
\* readme_content false, none when both are true), placed after the
\* structure entry and before the tests and commit-frequency entries.
C6_OneReadmeEntryInOrder ==
    fb.done =>
        LET r   == fb.out.roadmap
            pos == { i \in 1..Len(r) : IsReadmeEntry(r[i]) }
        IN  /\ Cardinality(pos) =
                   (IF a.readme /\ a.readme_content THEN 0 ELSE 1)
            /\ \A i \in pos :
                   /\ ~a.readme => r[i] \in {R_add, R_add_overview}
                   /\ a.readme  => r[i] \in {R_expand, R_improve}
                   /\ \A j \in 1..Len(r) :
                          /\ r[j] = R_structure => j < i
                          /\ r[j] \in {R_tests, R_commits} => i < j

IsC7Input ==
    /\ a.structure = "basic" /\ a.readme /\ a.readme_content /\ a.tests
    /\ a.commits = 60 /\ a.stars = 25

\* C7 as stated: for {basic, readme, readme_content, tests, 60 commits,
\* 25 stars} the roadmap is the single default entry.
C7_DefaultEntryOnly ==
    (fb.done /\ IsC7Input) => fb.out.roadmap = <<R_default>>

\* C7 as amended: for {basic, readme, readme_content, tests, 60 commits,
\* 25 stars} the roadmap is the single improve-structure entry, the default
\* entry is absent, and the score is 80.
C7_StructureEntryOnly ==
    (fb.done /\ IsC7Input) =>
        /\ fb.out.roadmap = <<R_structure>>
        /\ fb.out.score = 80

\* C7 witness: fallback_feedback has returned for exactly that input.
C7_Witness == fb.done /\ IsC7Input /\ Len(fb.out.roadmap) = 1

\* C8: the roadmap has between 1 and 7 entries and every entry is a
\* non-empty string.
C8_RoadmapLength ==
    fb.done =>
        /\ Len(fb.out.roadmap) >= 1
        /\ Len(fb.out.roadmap) <= 7
        /\ \A i \in 1..Len(fb.out.roadmap) : fb.out.roadmap[i] # ""

\* C8 witness: a run in which no rule fired has returned, its roadmap being
\* the default entry alone.
C8_Witness ==
    /\ fb.done
    /\ a.structure = "clean" /\ a.readme /\ a.readme_content /\ a.tests
    /\ a.commits >= 10
    /\ fb.out.roadmap = <<R_default>>

---------------------------------------------------------------------------
(* detect_readme on its own: a listing of distinct paths below TEMP_DIR    *)
(* and the bytes (or the read error) behind each, then the function.       *)

ReadmePaths ==
    { InTemp(<<N_README_md>>),
      InTemp(<<N_Readme>>),
      InTemp(<<N_readmes_md>>),
      InTemp(<<N_main_py>>),
      InTemp(<<S_docs, N_README_md>>) }

ReadmeContents ==
    { Unreadable,
      Bytes(<< >>),
      Bytes(<< <<"ws", 2>>, <<"txt", 49>>, <<"ws", 3>> >>),
      Bytes(<< <<"txt", 50>> >>),
      Bytes(<< <<"txt", 20>>, <<"ws", 10>>, <<"txt", 20>> >>),
      Bytes(<< <<"txt", 49>>, <<"bad", 4>> >>) }

Range(seq) == { seq[i] : i \in 1..Len(seq) }

Listings ==
    { l \in UNION { [1..n -> ReadmePaths] : n \in 0..MaxFiles } :
        \A i, j \in 1..Len(l) : i # j => l[i] # l[j] }

InitReadme ==
    /\ files \in Listings
    /\ disk \in [Range(files) -> ReadmeContents]
    /\ rd = NotRun
    /\ req = << >>
    /\ tempDir = << >>
    /\ a = NoAnalysis
    /\ fb = NotRun

RunDetectReadme ==
    /\ rd = NotRun
    /\ rd' = [done |-> TRUE, out |-> detect_readme(files, disk)]
    /\ UNCHANGED <<req, tempDir, a, fb, files, disk>>

NextReadme == RunDetectReadme

SpecReadme == InitReadme /\ [][NextReadme]_vars

\* a file directly at the snapshot root named "readme" or "readme.*"
IsRootReadme(f) ==
    /\ f = InTemp(<<basename(f)>>)
    /\ \/ Lower(basename(f)) = S_readme
       \/ StartsWith(Lower(basename(f)), S_readme_dot)

RECURSIVE SumRuns(_, _, _)
SumRuns(runs, lo, hi) ==
    IF lo > hi THEN 0 ELSE runs[lo][2] + SumRuns(runs, lo + 1, hi)

\* characters left once undecodable bytes are dropped and surrounding
\* whitespace is trimmed
TrimmedLength(runs) ==
    LET kept == SelectSeq(runs, LAMBDA r : r[1] # "bad")
        txt  == { i \in 1..Len(kept) : kept[i][1] = "txt" }
    IN  IF txt = {} THEN 0
        ELSE SumRuns(kept,
                     CHOOSE i \in txt : \A j \in txt : i <= j,
                     CHOOSE i \in txt : \A j \in txt : i >= j)

RootReadmes == { i \in 1..Len(files) : IsRootReadme(files[i]) }

FirstRootReadme == CHOOSE i \in RootReadmes : \A j \in RootReadmes : i <= j

\* C9: detect_readme returns (TRUE, TRUE) exactly when the first root-level
\* readme candidate in listing order is readable with at least 50 trimmed
\* characters, and (FALSE, FALSE) in every other case; so readmeHasContent
\* implies hasReadme.
C9_FirstRootReadmeDecides ==
    rd.done =>
        LET good == /\ RootReadmes # {}
                    /\ disk[files[FirstRootReadme]].readable
                    /\ TrimmedLength(disk[files[FirstRootReadme]].runs) >= 50
        IN  /\ rd.out = (IF good THEN <<TRUE, TRUE>> ELSE <<FALSE, FALSE>>)
            /\ rd.out[2] => rd.out[1]

\* C9 witness: detect_readme has returned (FALSE, FALSE) for a listing whose
\* first root candidate has 49 trimmed characters and whose later root
\* candidate has 50.
C9_Witness ==
    /\ rd.done
    /\ Cardinality(RootReadmes) = 2
    /\ \E i, j \in RootReadmes :
          /\ i < j
          /\ disk[files[i]].readable /\ TrimmedLength(disk[files[i]].runs) = 49
          /\ disk[files[j]].readable /\ TrimmedLength(disk[files[j]].runs) = 50
    /\ rd.out = <<FALSE, FALSE>>

---------------------------------------------------------------------------
(* The world outside the process: two repositories on the hosting service. *)

N_alpha == <<"a","l","p","h","a">>
N_beta  == <<"b","e","t","a">>
N_octo  == <<"o","c","t","o">>

UrlPrefix == << <<"h","t","t","p","s",":">>, EmptyStr,
                <<"g","i","t","h","u","b",".","c","o","m">> >>

\* request.form.get("repo_url"): None, or the submitted string
NoUrl  == [present |-> FALSE, segs |-> << >>]
UrlA   == [present |-> TRUE, segs |-> UrlPrefix \o <<N_octo, N_alpha>>]
UrlB   == [present |-> TRUE, segs |-> UrlPrefix \o <<N_octo, N_beta, EmptyStr>>]
Urls   == {NoUrl, UrlA, UrlB}

LongText  == Bytes(<< <<"txt", 400>>, <<"ws", 1>> >>)
ShortText == Bytes(<< <<"txt", 49>>, <<"ws", 1>> >>)

\* working tree of each repository right after a clone, in os.walk order
RepoTree(repo) ==
    IF repo = N_alpha
    THEN << [path |-> <<N_README_md>>,         content |-> LongText],
            [path |-> <<N_main_py>>,           content |-> LongText],
            [path |-> <<S_git, N_HEAD>>,       content |-> ShortText],
            [path |-> <<S_src, N_util_py>>,    content |-> LongText],
            [path |-> <<S_tests, N_app_test>>, content |-> LongText],
            [path |-> <<S_docs, N_guide_md>>,  content |-> LongText] >>
    ELSE << [path |-> <<N_Readme>>,            content |-> ShortText],
            [path |-> <<N_main_py>>,           content |-> ShortText],
            [path |-> <<S_git, N_HEAD>>,       content |-> ShortText],
            [path |-> <<N_Tests, N_util_py>>,  content |-> LongText] >>

\* body of GET /repos/{owner}/{repo}
RepoJson(repo) ==
    IF repo = N_alpha
    THEN [present |-> TRUE, stargazers_count |-> 25, language |-> "Python"]
    ELSE [present |-> TRUE, stargazers_count |-> 0,  language |-> "Go"]

\* the empty dict {}
EmptyJson == [present |-> FALSE, stargazers_count |-> 0, language |-> ""]

\* dict.get(key, default)
Get(d, key, default) == IF d.present THEN d[key] ELSE default

\* commits in each repository's history
RepoCommits(repo) == IF repo = N_alpha THEN 130 ELSE 3

\* length of the JSON list of GET .../commits?per_page=100&page=p
PageLength(repo, p) == Max(0, Min(100, RepoCommits(repo) - 100 * (p - 1)))

\* how one requests.get can end: a 2xx response, another status, or an
\* exception (ConnectionError, Timeout)
Outcomes == {"ok", "status", "unreachable", "timeout"}

ExceptionOf(o) == IF o = "timeout" THEN "Timeout" ELSE "ConnectionError"

---------------------------------------------------------------------------
(* TEMP_DIR on disk: whether it exists and the files below it, each named  *)
(* by the repository it was cloned from and its place in that tree.        *)

NoDir == [exists |-> FALSE, entries |-> {}]

EntryPath(e)    == InTemp(RepoTree(e.repo)[e.i].path)
EntryContent(e) == RepoTree(e.repo)[e.i].content

\* shutil.rmtree(path) when os.path.exists(path), for a path below TEMP_DIR
\* or TEMP_DIR itself
safe_delete(dir, path) ==
    IF path = TEMP_DIR
    THEN NoDir
    ELSE [dir EXCEPT !.entries =
            { e \in @ : ~StartsWith(EntryPath(e), path) }]

\* Repo.clone_from(url, TEMP_DIR, depth=1) when it succeeds
Cloned(repo) ==
    [exists |-> TRUE,
     entries |-> { [repo |-> repo, i |-> i] : i \in 1..Len(RepoTree(repo)) }]

\* git refuses a destination that exists and is not empty
CloneRefused(dir) == dir.exists /\ dir.entries # {}

RECURSIVE WalkRepo(_, _, _)
WalkRepo(dir, repo, i) ==
    IF i > Len(RepoTree(repo)) THEN << >>
    ELSE (IF [repo |-> repo, i |-> i] \in dir.entries
          THEN <<InTemp(RepoTree(repo)[i].path)>> ELSE << >>)
         \o WalkRepo(dir, repo, i + 1)

\* analyze_files(): os.walk(TEMP_DIR), nothing when the directory is gone
analyze_files(dir) ==
    IF ~dir.exists THEN << >>
    ELSE WalkRepo(dir, N_alpha, 1) \o WalkRepo(dir, N_beta, 1)

\* open(f, "rb").read() against the directory as it is now
ReadFile(dir, f) ==
    IF dir.exists /\ \E e \in dir.entries : EntryPath(e) = f
    THEN EntryContent(CHOOSE e \in dir.entries : EntryPath(e) = f)
    ELSE Unreadable

Opener(dir, fs) == [f \in Range(fs) |-> ReadFile(dir, f)]

---------------------------------------------------------------------------
(* parse_repo *)

RECURSIVE RStripSlash(_)
\* url.rstrip("/").split("/"), on the segments of url
RStripSlash(segs) ==
    IF Len(segs) > 1 /\ segs[Len(segs)] = EmptyStr
    THEN RStripSlash(SubSeq(segs, 1, Len(segs) - 1))
    ELSE segs

parse_repo(url) ==
    IF ~url.present
    THEN [exc |-> "AttributeError", owner |-> EmptyStr, repo |-> EmptyStr]
    ELSE LET parts == RStripSlash(url.segs)
         IN  IF Len(parts) < 2
             THEN [exc |-> "IndexError", owner |-> EmptyStr, repo |-> EmptyStr]
             ELSE [exc |-> "none", owner |-> parts[Len(parts) - 1],
                   repo |-> parts[Len(parts)]]

---------------------------------------------------------------------------
(* POST /analyze.  Flask's development server (app.run) serves each        *)
(* request on its own thread, so the steps of two requests interleave at   *)
(* every access to the network and to TEMP_DIR.                            *)

Reqs == {1, 2}

Idle ==
    [ pc        |-> "idle",
      url       |-> NoUrl,        \* analyze: url
      owner     |-> EmptyStr,     \* build_analysis: owner
      repo      |-> EmptyStr,     \* build_analysis: repo
      info      |-> EmptyJson,    \* build_analysis: info
      total     |-> 0,            \* github_commit_count: total
      page      |-> 1,            \* github_commit_count: page
      files     |-> << >>,        \* build_analysis: files
      analysis  |-> NoAnalysis,   \* analyze: analysis
      out       |-> NotRun,       \* analyze: summary, roadmap, score
      response  |-> "none",       \* what the client gets
      exc       |-> "none",       \* exception that left analyze
      infoCall  |-> "none",       \* how the github_repo_info request ended
      pageCall  |-> "none",       \* how the last commits request ended
      metaCalls |-> 0,            \* requests.get calls made
      touched   |-> FALSE,        \* has deleted from or cloned into TEMP_DIR
      cloneExc  |-> FALSE,        \* Repo.clone_from raised
      released  |-> 0 ]           \* executions of line 368, safe_delete(TEMP_DIR)

Init ==
    /\ req = [r \in Reqs |-> Idle]
    /\ tempDir = NoDir
    /\ a = NoAnalysis
    /\ fb = NotRun
    /\ files = << >>
    /\ disk = << >>
    /\ rd = NotRun

\* an exception leaves analyze: Flask answers 500, nothing else runs
Raise(q, e) == [q EXCEPT !.pc = "raised", !.exc = e, !.response = "error_500"]

\* analyze reads the form field; build_analysis calls parse_repo(url)
Receive(r) ==
    /\ req[r].pc = "idle"
    /\ \E u \in Urls :
         LET q == [req[r] EXCEPT !.url = u]
             p == parse_repo(u)
         IN  req' = [req EXCEPT ![r] =
                 IF p.exc # "none"
                 THEN Raise(q, p.exc)
                 ELSE [q EXCEPT !.pc = "info", !.owner = p.owner, !.repo = p.repo]]
    /\ UNCHANGED <<tempDir, a, fb, files, disk, rd>>

\* info = github_repo_info(owner, repo)
RepoInfo(r) ==
    /\ req[r].pc = "info"
    /\ \E o \in Outcomes :
         LET q == [req[r] EXCEPT !.infoCall = o, !.metaCalls = @ + 1]
         IN  req' = [req EXCEPT ![r] =
                 IF o \in {"unreachable", "timeout"}
                 THEN Raise(q, ExceptionOf(o))
                 ELSE [q EXCEPT !.pc = "commits",
                                !.info = IF o = "ok" THEN RepoJson(q.repo)
                                         ELSE EmptyJson]]
    /\ UNCHANGED <<tempDir, a, fb, files, disk, rd>>

\* one turn of the loop of github_commit_count
CommitPage(r) ==
    /\ req[r].pc = "commits"
    /\ \E o \in Outcomes :
         LET q == [req[r] EXCEPT !.pageCall = o, !.metaCalls = @ + 1]
             n == PageLength(q.repo, q.page)
         IN  req' = [req EXCEPT ![r] =
                 IF o \in {"unreachable", "timeout"}
                 THEN Raise(q, ExceptionOf(o))
                 ELSE IF o = "status" \/ n = 0
                      THEN [q EXCEPT !.pc = "clone_delete"]
                      ELSE [q EXCEPT !.total = @ + n, !.page = @ + 1]]
    /\ UNCHANGED <<tempDir, a, fb, files, disk, rd>>

\* clone_repo, line 191: safe_delete(TEMP_DIR)
CloneDelete(r) ==
    /\ req[r].pc = "clone_delete"
    /\ tempDir' = safe_delete(tempDir, TEMP_DIR)
    /\ req' = [req EXCEPT ![r].pc = "clone_from", ![r].touched = TRUE]
    /\ UNCHANGED <<a, fb, files, disk, rd>>

\* clone_repo, line 192: Repo.clone_from(url, TEMP_DIR, depth=1)
CloneFrom(r) ==
    /\ req[r].pc = "clone_from"
    /\ \E reachable \in BOOLEAN :
         IF reachable /\ ~CloneRefused(tempDir)
         THEN /\ tempDir' = Cloned(req[r].repo)
              /\ req' = [req EXCEPT ![r].pc = "clone_strip"]
         ELSE /\ tempDir' = tempDir
              /\ req' = [req EXCEPT ![r] =
                     Raise([@ EXCEPT !.cloneExc = TRUE], "GitCommandError")]
    /\ UNCHANGED <<a, fb, files, disk, rd>>

\* clone_repo, line 193: safe_delete(os.path.join(TEMP_DIR, ".git"))
CloneStripGit(r) ==
    /\ req[r].pc = "clone_strip"
    /\ tempDir' = safe_delete(tempDir, InTemp(<<S_git>>))
    /\ req' = [req EXCEPT ![r].pc = "walk"]
    /\ UNCHANGED <<a, fb, files, disk, rd>>

\* files = analyze_files()
AnalyzeFiles(r) ==
    /\ req[r].pc = "walk"
    /\ req' = [req EXCEPT ![r].files = analyze_files(tempDir), ![r].pc = "detect"]
    /\ UNCHANGED <<tempDir, a, fb, files, disk, rd>>

\* the dict build_analysis returns, README files read from openf
Analysis(fs, openf, commits, info) ==
    [ structure      |-> detect_structure(fs),
      readme         |-> detect_readme(fs, openf)[1],
      readme_content |-> detect_readme(fs, openf)[2],
      tests          |-> detect_tests(fs),
      commits        |-> commits,
      stars          |-> Get(info, "stargazers_count", 0),
      language       |-> Get(info, "language", "Unknown") ]

\* the detectors and the return of build_analysis
Detect(r) ==
    /\ req[r].pc = "detect"
    /\ req' = [req EXCEPT
                 ![r].analysis = Analysis(req[r].files,
                                          Opener(tempDir, req[r].files),
                                          req[r].total, req[r].info),
                 ![r].pc = "feedback"]
    /\ UNCHANGED <<tempDir, a, fb, files, disk, rd>>

\* analyze, lines 367-375: fallback_feedback, safe_delete(TEMP_DIR), render
Feedback(r) ==
    /\ req[r].pc = "feedback"
    /\ tempDir' = safe_delete(tempDir, TEMP_DIR)
    /\ req' = [req EXCEPT
                 ![r].out = [done |-> TRUE, out |-> fallback_feedback(req[r].analysis)],
                 ![r].released = @ + 1,
                 ![r].touched = TRUE,
                 ![r].response = "result_page",
                 ![r].pc = "done"]
    /\ UNCHANGED <<a, fb, files, disk, rd>>

Next ==
    \E r \in Reqs :
        \/ Receive(r)
        \/ RepoInfo(r)
        \/ CommitPage(r)
        \/ CloneDelete(r)
        \/ CloneFrom(r)
        \/ CloneStripGit(r)
        \/ AnalyzeFiles(r)
        \/ Detect(r)
        \/ Feedback(r)

Spec == Init /\ [][Next]_vars

Ended(r) == req[r].pc \in {"done", "raised"}

\* C1: whenever a request has ended, by returning or by an exception, it
\* has released TEMP_DIR (the safe_delete that follows feedback generation)
\* exactly once.
C1_ReleasedExactlyOnce ==
    \A r \in Reqs : Ended(r) => req[r].released = 1

MetadataCallFailed(r) ==
    \/ req[r].infoCall \in {"status", "unreachable", "timeout"}
    \/ req[r].pageCall \in {"status", "unreachable", "timeout"}

\* C2: a request with a URL whose metadata call failed (unreachable, timed
\* out, or non-success status) and whose clone did not fail ends with a
\* complete Assessment: stars 0 and language "Unknown" when the repository
\* call failed, commits the count accumulated so far; an error response
\* comes only from a clone failure or a missing URL.
C2_MetadataFailureRecovered ==
    \A r \in Reqs :
        /\ (Ended(r) /\ MetadataCallFailed(r) /\ ~req[r].cloneExc) =>
              /\ req[r].pc = "done"
              /\ req[r].response = "result_page"
              /\ req[r].out.done
              /\ req[r].infoCall # "ok" =>
                    /\ req[r].analysis.stars = 0
                    /\ req[r].analysis.language = "Unknown"
              /\ req[r].analysis.commits = req[r].total
        /\ req[r].response = "error_500" =>
              (req[r].cloneExc \/ ~req[r].url.present)

\* C3: a request without repo_url ends in a plain-text error response made
\* by the handler: no metadata call, no clone, TEMP_DIR untouched, and no
\* exception leaves analyze.
C3_AbsentUrlPlainError ==
    \A r \in Reqs :
        (Ended(r) /\ ~req[r].url.present) =>
            /\ req[r].response = "plain_text_error"
            /\ req[r].exc = "none"
            /\ req[r].metaCalls = 0
            /\ ~req[r].touched

\* the listing of a request's own snapshot: its repository's working tree
\* without .git, in walk order
OwnListing(r) ==
    analyze_files(safe_delete(Cloned(req[r].repo), InTemp(<<S_git>>)))

OwnOpener(r) ==
    Opener(safe_delete(Cloned(req[r].repo), InTemp(<<S_git>>)), OwnListing(r))

\* C10: requests share no state: the listing a request walked is that of
\* its own snapshot, complete and unmodified, and its detector results are
\* those of its own snapshot, whatever the other request did meanwhile.
C10_RequestsIsolated ==
    \A r \in Reqs :
        /\ req[r].pc \in {"detect", "feedback", "done"} =>
              req[r].files = OwnListing(r)
        /\ req[r].pc \in {"feedback", "done"} =>
              req[r].analysis =
                  Analysis(OwnListing(r), OwnOpener(r), req[r].total, req[r].info)

====
